---- MODULE Spec2Model ----
(***************************************************************************)
(* The orchestration core of the recruitment pipeline                      *)
(* (agents/orchestrator_agent.py) with the three evaluation agents it      *)
(* drives and the scheduling agent it hands the qualified candidates to.   *)
(*                                                                         *)
(* Numbers.  Python floats are modelled as exact fixed-point integers:     *)
(*   - a percentage reported by the text-generation service, and every     *)
(*     "* 100, rounded to 2 decimals" field of a ranked candidate           *)
(*     (overall_score, skills_match_score, ...): hundredths of a percent   *)
(*     (9999 is 99.99);                                                     *)
(*   - a 0..1 score inside the orchestrator (match_score,                   *)
(*     cultural_fit_score, exp_score): millionths (999900 is 0.9999);       *)
(*   - the weights: tenths (6 is 0.6), so the weighted overall score is in  *)
(*     units of 10^-7 (8499700 is 0.84997).                                 *)
(* Dictionaries are records; dict.get(key, default) is Get.  A JSON value   *)
(* that may be null is a record tagged by t ("null", "list", "dict").       *)
(***************************************************************************)
EXTENDS Integers, Sequences, FiniteSets, TLC

VARIABLES
    input_data,           \* the argument of OrchestratorAgent.process
    pc,                   \* where process is
    parse_tasks,          \* outcomes of the Phase 1 tasks settled so far, in index order
    parsed_candidates,    \* what _parse_resumes_parallel returned
    valid_candidates,     \* the successfully parsed ones
    eval_tasks,           \* outcomes of the Phase 2 tasks settled so far
    evaluated_candidates, \* what _evaluate_candidates_parallel returned
    ranked_candidates,    \* what _rank_candidates returned
    qualified_candidates, \* what _filter_qualified_candidates returned
    scheduling_result,    \* what the Scheduling Agent returned
    calls,                \* the agent invocations made so far, in order
    result,               \* what process returned
    calendar              \* the interviewer's calendar, as the calendar service has it

vars == <<input_data, pc, parse_tasks, parsed_candidates, valid_candidates,
          eval_tasks, evaluated_candidates, ranked_candidates,
          qualified_candidates, scheduling_result, calls, result,
          calendar>>

-----------------------------------------------------------------------------
(* Bounds of the model *)

\* the largest batch of resumes handed to process
MaxResumes == 2

\* the longest evaluated list handed to _rank_candidates on its own
MaxEvaluated == 4

\* the longest ranked list handed to _filter_qualified_candidates on its own
MaxRanked == 10

-----------------------------------------------------------------------------
(* config.py *)

SKILLS_MATCH_THRESHOLD == 7000

CULTURAL_FIT_THRESHOLD == 6500

SKILLS_WEIGHT == 6

CULTURAL_FIT_WEIGHT == 3

EXPERIENCE_WEIGHT == 1

-----------------------------------------------------------------------------
(* Python values *)

None == "None"

Null == [t |-> "null"]

List(n) == [t |-> "list", len |-> n]

Dict(name) == [t |-> "dict", name |-> name]

\* dict.get(key, default)
Get(d, key, default) == IF key \in DOMAIN d THEN d[key] ELSE default

Min(a, b) == IF a <= b THEN a ELSE b

Max(a, b) == IF a >= b THEN a ELSE b

\* round(x / d) the way Python's round does it, half to even
RoundHalfEven(x, d) ==
    LET q == x \div d
        r == x % d
    IN  IF 2 * r < d THEN q
        ELSE IF 2 * r > d THEN q + 1
        ELSE IF q % 2 = 0 THEN q ELSE q + 1

\* f"candidate_{idx}"
CandidateId(idx) == "candidate_" \o ToString(idx)

SeqToSet(s) == {s[i] : i \in 1..Len(s)}

-----------------------------------------------------------------------------
(* What the text-generation service can answer to one call: it raises, it  *)
(* returns text that is no JSON, it returns a JSON document (an object), or *)
(* it returns JSON that is not an object (a list, a number, null).          *)

\* candidate_data documents the service returns for a resume
CandidatePayloads ==
    { [personal_info |-> Dict("Ann"), work_experience |-> List(2)],
      [personal_info |-> Dict("Bob"), work_experience |-> List(5)],
      [personal_info |-> Dict("Cy"), work_experience |-> Null],
      [personal_info |-> Null, work_experience |-> List(2)] }

ParserResponses ==
    { [kind |-> "raise"], [kind |-> "text"] }
        \cup { [kind |-> "json", data |-> d] : d \in CandidatePayloads }

\* answers no agent can use: text that json.loads rejects, and JSON that
\* json.loads accepts but that is no object
MalformedResponses == { [kind |-> "text"], [kind |-> "json_value"] }

\* overall_match_percentage values the service reports (hundredths of a percent)
SkillsPercentages == {7000, 9999, 15000}

SkillsResponses ==
    { [kind |-> "raise"] }
        \cup { [kind |-> "json", data |-> [overall_match_percentage |-> p]] :
                p \in SkillsPercentages }

\* overall_cultural_fit_score values the service reports
CulturalPercentages == {6000, 6500, 7001}

CulturalResponses ==
    { [kind |-> "raise"] }
        \cup { [kind |-> "json", data |-> [overall_cultural_fit_score |-> p]] :
                p \in CulturalPercentages }

-----------------------------------------------------------------------------
(* agents/base_agent.py *)

\* a _generate_response that calls the service a second time when the first
\* call raised
GenerateCallsWithRetry(agent, generates, response) ==
    LET call == [agent |-> "text_generation", by |-> agent, response |-> response]
    IN  IF ~generates THEN <<>>
        ELSE IF response.kind = "raise" THEN <<call, call>>
        ELSE <<call>>

\* the calls of the text-generation service one invocation of an agent
\* makes: _generate_response calls generate_content once, if process gets
\* that far, and lets what it raises through
GenerateCalls(agent, generates, response) ==
    IF generates THEN <<[agent |-> "text_generation", by |-> agent, response |-> response]>>
    ELSE <<>>

-----------------------------------------------------------------------------
(* agents/resume_parser_agent.py *)

\* ResumeParserAgent.process: if not resume_content
ResumeParserInputMissing(resume) == Get(resume, "resume_content", "") = ""

\* ResumeParserAgent.process gets as far as its call of _generate_response
ResumeParserGenerates(resume) == ~ResumeParserInputMissing(resume)

\* ResumeParserAgent.process; confidence_scores, which nothing downstream
\* reads, is left out of the success result
ResumeParserProcess(resume, response) ==
    IF ResumeParserInputMissing(resume)
    THEN [status |-> "error", message |-> "No resume content provided",
          candidate_data |-> None]
    ELSE IF response.kind = "raise"
    THEN [status |-> "error", message |-> "generation failed",
          candidate_data |-> None]
    ELSE IF response.kind = "text"
    THEN [status |-> "error", message |-> "Failed to parse response",
          raw_response |-> "text", candidate_data |-> None]
    ELSE IF response.kind = "json_value"
    THEN [status |-> "error", message |-> "object has no attribute 'get'",
          candidate_data |-> None]
    ELSE [status |-> "success", candidate_data |-> response.data]

-----------------------------------------------------------------------------
(* agents/skills_matcher_agent.py *)

\* x / 100 of a percentage, as a 0..1 score in millionths
ScoreFromPercentage(p) == p * 100

\* SkillsMatcherAgent._determine_recommendation
DetermineRecommendation(match_percentage) ==
    IF match_percentage >= 8500 THEN "strong_match"
    ELSE IF match_percentage >= 7000 THEN "moderate_match"
    ELSE "weak_match"

\* SkillsMatcherAgent._calculate_years_of_experience raises TypeError on
\* len(None)
SkillsYearsRaises(candidate_data) ==
    Get(candidate_data, "work_experience", List(0)).t = "null"

\* an input check that looks at the candidate data alone
SkillsMatcherCandidateMissing(request) ==
    DOMAIN Get(request, "candidate_data", <<>>) = {}

\* SkillsMatcherAgent.process: if not candidate_data or not job_description
SkillsMatcherInputMissing(request) ==
    \/ DOMAIN Get(request, "candidate_data", <<>>) = {}
    \/ DOMAIN Get(request, "job_description", <<>>) = {}

\* SkillsMatcherAgent.process gets as far as its call of _generate_response
SkillsMatcherGenerates(request) ==
    /\ ~SkillsMatcherInputMissing(request)
    /\ ~SkillsYearsRaises(Get(request, "candidate_data", <<>>))

\* SkillsMatcherAgent.process
SkillsMatcherProcess(request, response) ==
    IF SkillsMatcherInputMissing(request)
    THEN [status |-> "error", message |-> "Missing required input data"]
    ELSE IF SkillsYearsRaises(Get(request, "candidate_data", <<>>))
    THEN [status |-> "error", message |-> "object of type NoneType has no len()"]
    ELSE IF response.kind = "raise"
    THEN [status |-> "error", message |-> "generation failed"]
    ELSE IF response.kind = "text"
    THEN [status |-> "error", message |-> "Failed to parse response",
          raw_response |-> "text"]
    ELSE IF response.kind = "json_value"
    THEN [status |-> "error", message |-> "object has no attribute 'get'"]
    ELSE [status |-> "success",
          match_score |->
              ScoreFromPercentage(Get(response.data, "overall_match_percentage", 0)),
          recommendation |->
              DetermineRecommendation(Get(response.data, "overall_match_percentage", 0))]

-----------------------------------------------------------------------------
(* agents/cultural_fit_agent.py *)

\* CulturalFitAgent.process: if not candidate_data; the job description is
\* not looked at
CulturalFitInputMissing(request) ==
    DOMAIN Get(request, "candidate_data", <<>>) = {}

\* CulturalFitAgent.process gets as far as its call of _generate_response:
\* an empty company_culture is made up from the job description, empty or not
CulturalFitGenerates(request) == ~CulturalFitInputMissing(request)

\* CulturalFitAgent.process
CulturalFitProcess(request, response) ==
    IF CulturalFitInputMissing(request)
    THEN [status |-> "error", message |-> "Missing candidate data"]
    ELSE IF response.kind = "raise"
    THEN [status |-> "error", message |-> "generation failed"]
    ELSE IF response.kind = "text"
    THEN [status |-> "error", message |-> "Failed to parse response",
          raw_response |-> "text"]
    ELSE IF response.kind = "json_value"
    THEN [status |-> "error", message |-> "object has no attribute 'get'"]
    ELSE [status |-> "success",
          cultural_fit_score |->
              ScoreFromPercentage(Get(response.data, "overall_cultural_fit_score", 0))]

-----------------------------------------------------------------------------
(* agents/orchestrator_agent.py: the pure parts *)

\* one settled task of an asyncio.gather(..., return_exceptions=True): the
\* value the coroutine returned, or the exception it raised, kept as a value
Returned(v) == [raised |-> FALSE, value |-> v]

Raised(message) == [raised |-> TRUE, message |-> message]

\* _parse_resumes_parallel, the loop over the gathered results: results[idx]
\* of the (0-based) index idx
ParsedCandidate(task, idx) ==
    IF task.raised
    THEN [status |-> "error", resume_index |-> idx, error |-> task.message]
    ELSE [f \in DOMAIN task.value \cup {"resume_index", "id"} |->
            IF f = "resume_index" THEN idx
            ELSE IF f = "id" THEN CandidateId(idx)
            ELSE task.value[f]]

\* a tagging that numbers the successful results among themselves
ParsedCandidatesNumberedBySuccess(tasks) ==
    LET Before(i) == Cardinality({j \in 1..(i - 1) : ~tasks[j].raised})
    IN  [i \in 1..Len(tasks) |-> ParsedCandidate(tasks[i], Before(i))]

\* _parse_resumes_parallel, given the settled tasks in index order
ParsedCandidates(tasks) ==
    [i \in 1..Len(tasks) |-> ParsedCandidate(tasks[i], i - 1)]

\* process: valid_candidates = [c for c in parsed_candidates if c['status'] == 'success']
ValidCandidates(parsed) ==
    LET IsSuccess(c) == c.status = "success"
    IN  SelectSeq(parsed, IsSuccess)

\* _evaluate_single_candidate: the combined result
EvaluatedCandidate(candidate, skills_result, cultural_result) ==
    [id |-> Get(candidate, "id", None),
     resume_index |-> Get(candidate, "resume_index", None),
     candidate_data |-> candidate.candidate_data,
     skills_evaluation |-> skills_result,
     cultural_evaluation |-> cultural_result]

\* _evaluate_candidates_parallel, the loop over the gathered results: a task
\* that raised is logged and dropped
EvaluatedCandidates(tasks) ==
    LET Settled(t) == ~t.raised
        kept == SelectSeq(tasks, Settled)
    IN  [i \in 1..Len(kept) |-> kept[i].value]

\* _get_years_of_experience raises TypeError on len(None)
YearsRaises(candidate_data) ==
    Get(candidate_data, "work_experience", List(0)).t = "null"

\* _get_years_of_experience: len(work_experience) * 2
GetYearsOfExperience(candidate_data) ==
    Get(candidate_data, "work_experience", List(0)).len * 2

\* candidate_data.get('personal_info', {}).get(...) raises AttributeError
\* on None
PersonalInfoRaises(candidate_data) ==
    Get(candidate_data, "personal_info", [t |-> "dict"]).t = "null"

\* an experience score without the cap at 1.0
ExperienceScoreUncapped(candidate_data) ==
    GetYearsOfExperience(candidate_data) * 100000

\* min(years_exp / 10, 1.0), in millionths
ExperienceScore(candidate_data) ==
    Min(GetYearsOfExperience(candidate_data) * 100000, 1000000)

\* skills_score * SKILLS_WEIGHT + cultural_score * CULTURAL_FIT_WEIGHT
\*   + exp_score * EXPERIENCE_WEIGHT, in units of 10^-7
OverallScore(skills_score, cultural_score, exp_score) ==
    skills_score * SKILLS_WEIGHT + cultural_score * CULTURAL_FIT_WEIGHT
        + exp_score * EXPERIENCE_WEIGHT

\* tiers that begin above their thresholds instead of at them
DetermineTierAboveThreshold(overall_score) ==
    IF overall_score > 8500000 THEN "strong_match"
    ELSE IF overall_score > 7000000 THEN "moderate_match"
    ELSE "weak_match"

\* _determine_tier of the unrounded overall score (10^-7): percentage =
\* overall_score * 100 against 85 and 70
DetermineTier(overall_score) ==
    IF overall_score >= 8500000 THEN "strong_match"
    ELSE IF overall_score >= 7000000 THEN "moderate_match"
    ELSE "weak_match"

\* _rank_candidates raises out of its loop on a null work_experience or
\* personal_info
RankRaises(candidates) ==
    \E i \in 1..Len(candidates) :
        \/ YearsRaises(candidates[i].candidate_data)
        \/ PersonalInfoRaises(candidates[i].candidate_data)

\* _rank_candidates, the entry appended for one candidate
RankedEntry(candidate) ==
    LET skills_eval == Get(candidate, "skills_evaluation", <<>>)
        cultural_eval == Get(candidate, "cultural_evaluation", <<>>)
        candidate_data == Get(candidate, "candidate_data", <<>>)
        skills_score == Get(skills_eval, "match_score", 0)
        cultural_score == Get(cultural_eval, "cultural_fit_score", 0)
        exp_score == ExperienceScore(candidate_data)
        overall_score == OverallScore(skills_score, cultural_score, exp_score)
    IN  [id |-> Get(candidate, "id", None),
         candidate_data |-> candidate_data,
         name |-> Get(Get(candidate_data, "personal_info", [t |-> "dict"]),
                      "name", "Unknown"),
         overall_score |-> RoundHalfEven(overall_score, 1000),
         skills_match_score |-> RoundHalfEven(skills_score, 100),
         cultural_fit_score |-> RoundHalfEven(cultural_score, 100),
         experience_score |-> RoundHalfEven(exp_score, 100),
         tier |-> DetermineTier(overall_score),
         recommendation |-> Get(skills_eval, "recommendation", "weak_match")]

\* a sort that puts an entry ahead of the earlier entries of the same score
InsertByScoreAheadOfEqual(sorted, e) ==
    LET ahead == Cardinality({i \in 1..Len(sorted) :
                                sorted[i].overall_score > e.overall_score})
    IN  SubSeq(sorted, 1, ahead) \o <<e>> \o SubSeq(sorted, ahead + 1, Len(sorted))

\* where list.sort(key=overall_score, reverse=True), which is stable, leaves
\* entry e among the already sorted entries before it: behind every entry
\* whose score is not smaller
InsertByScore(sorted, e) ==
    LET ahead == Cardinality({i \in 1..Len(sorted) :
                                sorted[i].overall_score >= e.overall_score})
    IN  SubSeq(sorted, 1, ahead) \o <<e>> \o SubSeq(sorted, ahead + 1, Len(sorted))

RECURSIVE SortByScore(_)
\* ranked.sort(key=lambda x: x['overall_score'], reverse=True)
SortByScore(entries) ==
    IF entries = <<>> THEN <<>>
    ELSE InsertByScore(SortByScore(SubSeq(entries, 1, Len(entries) - 1)),
                       entries[Len(entries)])

\* _rank_candidates, when it does not raise
RankCandidates(candidates) ==
    SortByScore([i \in 1..Len(candidates) |-> RankedEntry(candidates[i])])

\* _filter_qualified_candidates, the threshold test of its loop
MeetsThresholds(candidate) ==
    /\ Get(candidate, "skills_match_score", 0) >= SKILLS_MATCH_THRESHOLD
    /\ Get(candidate, "cultural_fit_score", 0) >= CULTURAL_FIT_THRESHOLD

\* a filter without the strong-match precedence: the qualified set itself
\* when it holds a strong match
FilterKeepsQualified(ranked) ==
    LET IsStrong(c) == c.tier = "strong_match"
        qualified == SelectSeq(ranked, MeetsThresholds)
        top_20_percent == Max(1, Len(qualified) \div 5)
    IN  IF SelectSeq(qualified, IsStrong) # <<>> THEN qualified
        ELSE SubSeq(qualified, 1, Min(top_20_percent, Len(qualified)))

\* a filter whose top 20 % has no floor of one
FilterWithoutFloor(ranked) ==
    LET IsStrong(c) == c.tier = "strong_match"
        qualified == SelectSeq(ranked, MeetsThresholds)
        strong_matches == SelectSeq(qualified, IsStrong)
    IN  IF strong_matches # <<>> THEN strong_matches
        ELSE SubSeq(qualified, 1, Len(qualified) \div 5)

\* a filter that takes the strong matches from the whole ranked list
FilterStrongOfRanked(ranked) ==
    LET IsStrong(c) == c.tier = "strong_match"
        qualified == SelectSeq(ranked, MeetsThresholds)
        strong_matches == SelectSeq(ranked, IsStrong)
        top_20_percent == Max(1, Len(qualified) \div 5)
    IN  IF strong_matches # <<>> THEN strong_matches
        ELSE SubSeq(qualified, 1, Min(top_20_percent, Len(qualified)))

\* _filter_qualified_candidates
FilterQualifiedCandidates(ranked) ==
    LET IsStrong(c) == c.tier = "strong_match"
        qualified == SelectSeq(ranked, MeetsThresholds)
        strong_matches == SelectSeq(qualified, IsStrong)
        top_20_percent == Max(1, Len(qualified) \div 5)
    IN  IF strong_matches # <<>> THEN strong_matches
        ELSE SubSeq(qualified, 1, Min(top_20_percent, Len(qualified)))

-----------------------------------------------------------------------------
(* agents/interview_scheduler_agent.py *)

\* what can happen to one candidate in the scheduling loop: a slot is found
\* and the event created, no slot is free, or the calendar raises
SchedulingOutcomes == {"scheduled", "no_slots", "calendar_error"}

\* an entry that identifies the candidate by name
ScheduledSlotKeyedByName(candidate) ==
    [candidate_id |-> Get(candidate, "name", None),
     candidate_name |-> Get(candidate, "name", None),
     status |-> "scheduled"]

\* InterviewSchedulerAgent.process, the entry appended for a candidate
ScheduledSlot(candidate) ==
    [candidate_id |-> Get(candidate, "id", None),
     candidate_name |-> Get(candidate, "name", None),
     status |-> "scheduled"]

\* a scheduling loop that gives up at the first candidate it fails for
InterviewSchedulerStopsAtFailure(request, outcome) ==
    LET candidates == Get(request, "candidates", <<>>)
        done == {i \in 1..Len(candidates) :
                    \A j \in 1..i : outcome[j] = "scheduled"}
        Nth(k) == CHOOSE i \in done : Cardinality({j \in done : j <= i}) = k
    IN  IF Len(candidates) = 0
        THEN [status |-> "success", scheduled_slots |-> <<>>,
              message |-> "No candidates provided for scheduling"]
        ELSE [status |-> "success",
              scheduled_slots |->
                  [k \in 1..Cardinality(done) |-> ScheduledSlot(candidates[Nth(k)])],
              total_scheduled |-> Cardinality(done),
              total_attempted |-> Len(candidates)]

\* InterviewSchedulerAgent.process, outcome[i] being what happens to the
\* i-th candidate: the loop goes on to the next candidate after a failure
InterviewSchedulerProcess(request, outcome) ==
    LET candidates == Get(request, "candidates", <<>>)
        done == {i \in 1..Len(candidates) : outcome[i] = "scheduled"}
        Nth(k) == CHOOSE i \in done : Cardinality({j \in done : j <= i}) = k
    IN  IF Len(candidates) = 0
        THEN [status |-> "success", scheduled_slots |-> <<>>,
              message |-> "No candidates provided for scheduling"]
        ELSE [status |-> "success",
              scheduled_slots |->
                  [k \in 1..Cardinality(done) |-> ScheduledSlot(candidates[Nth(k)])],
              total_scheduled |-> Cardinality(done),
              total_attempted |-> Len(candidates)]

-----------------------------------------------------------------------------
(* OrchestratorAgent.process, step by step *)

Resumes == { [resume_content |-> ""], [resume_content |-> "text"] }

ResumeLists == UNION { [1..n -> Resumes] : n \in 0..MaxResumes }

JobDescriptions == { <<>>, [title |-> "Engineer"] }

InterviewerEmails == { "", "interviewer@company.com" }

\* the arguments process is called with; a key may be missing
InputDatas ==
    { [resumes |-> r, job_description |-> j, interviewer_email |-> e] :
        r \in ResumeLists, j \in JobDescriptions, e \in InterviewerEmails }
      \cup { [resumes |-> r] : r \in ResumeLists }
      \cup { [job_description |-> j] : j \in JobDescriptions }

resumes == Get(input_data, "resumes", <<>>)

job_description == Get(input_data, "job_description", <<>>)

interviewer_email == Get(input_data, "interviewer_email", "")

NoResult == <<>>

NoScheduling == [scheduled_slots |-> <<>>]

\* the calendar of a run in which the Scheduling Agent is not looked into
NoCalendar == <<>>

Idle ==
    /\ parse_tasks = <<>>
    /\ parsed_candidates = <<>>
    /\ valid_candidates = <<>>
    /\ eval_tasks = <<>>
    /\ evaluated_candidates = <<>>
    /\ ranked_candidates = <<>>
    /\ qualified_candidates = <<>>
    /\ scheduling_result = NoScheduling
    /\ calls = <<>>
    /\ result = NoResult
    /\ calendar = NoCalendar

Init ==
    /\ input_data \in InputDatas
    /\ pc = "start"
    /\ Idle

\* an except clause whose result has no ranked_candidates
ProcessExceptMessageOnly(message) ==
    [status |-> "error", message |-> message]

\* an except clause that lets the exception go on to the caller
ProcessExceptReraises(message) ==
    [status |-> "exception", message |-> message]

\* the except clause of process
ProcessExcept(message) ==
    [status |-> "error", message |-> message, ranked_candidates |-> <<>>]

\* the two input checks in the other order
InputErrorJobFirst(rs, jd) ==
    IF DOMAIN jd = {} THEN "No job description provided"
    ELSE IF Len(rs) = 0 THEN "No resumes provided"
    ELSE None

\* the two input checks of process: the message of the error result, or None
InputError(rs, jd) ==
    IF Len(rs) = 0 THEN "No resumes provided"
    ELSE IF DOMAIN jd = {} THEN "No job description provided"
    ELSE None

\* an await that goes on as soon as one task has settled
FirstSettled(tasks, expected) == Len(tasks) >= Min(1, expected)

\* an await that waits for one task more than were started
OneMoreSettled(tasks, expected) == Len(tasks) = expected + 1

\* await asyncio.gather(*tasks, return_exceptions=True) returns once every
\* one of the expected tasks has settled
AllSettled(tasks, expected) == Len(tasks) = expected

\* process up to Phase 1: read the input, return at once on a missing one
Validate ==
    /\ pc = "start"
    /\ IF InputError(resumes, job_description) # None
       THEN /\ result' = [status |-> "error",
                          message |-> InputError(resumes, job_description),
                          ranked_candidates |-> <<>>]
            /\ pc' = "done"
       ELSE /\ result' = result
            /\ pc' = "parse"
    /\ UNCHANGED <<calendar, input_data, parse_tasks, parsed_candidates, valid_candidates,
                   eval_tasks, evaluated_candidates, ranked_candidates,
                   qualified_candidates, scheduling_result, calls>>

\* Phase 1, a task of the gather gets to its call of the text-generation
\* service.  generate_content is a blocking call inside the coroutine: no
\* coroutine suspends while it runs, so the next task starts only when the
\* call is over, and the tasks run one after the other in index order.
BeginParserCall ==
    /\ pc = "parse"
    /\ Len(parse_tasks) < Len(resumes)
    /\ ResumeParserGenerates(resumes[Len(parse_tasks) + 1])
    /\ pc' = "parser_call"
    /\ UNCHANGED <<calendar, input_data, parse_tasks, parsed_candidates, valid_candidates,
                   eval_tasks, evaluated_candidates, ranked_candidates,
                   qualified_candidates, scheduling_result, calls, result>>

\* Phase 1, one task of the gather settles: _parse_single_resume of the next
\* resume returns, after the answer of the service if it called it
ParseResume ==
    /\ Len(parse_tasks) < Len(resumes)
    /\ LET resume == resumes[Len(parse_tasks) + 1]
       IN  /\ pc = IF ResumeParserGenerates(resume) THEN "parser_call" ELSE "parse"
           /\ \E response \in ParserResponses :
                 /\ parse_tasks' = Append(parse_tasks,
                        Returned(ResumeParserProcess(resume, response)))
                 /\ calls' = Append(calls,
                        [agent |-> "resume_parser", index |-> Len(parse_tasks),
                         generations |->
                             Len(GenerateCalls("resume_parser",
                                     ResumeParserGenerates(resume), response))])
    /\ pc' = "parse"
    /\ UNCHANGED <<calendar, input_data, parsed_candidates, valid_candidates, eval_tasks,
                   evaluated_candidates, ranked_candidates, qualified_candidates,
                   scheduling_result, result>>

\* Phase 1, one task of the gather, when the call of the parser raises
\* before it gets to the service
ParseResumeRaises ==
    /\ pc = "parse"
    /\ Len(parse_tasks) < Len(resumes)
    /\ parse_tasks' = Append(parse_tasks, Raised("parser raised"))
    /\ calls' = Append(calls, [agent |-> "resume_parser", index |-> Len(parse_tasks),
                               generations |-> 0])
    /\ UNCHANGED <<calendar, input_data, pc, parsed_candidates, valid_candidates, eval_tasks,
                   evaluated_candidates, ranked_candidates, qualified_candidates,
                   scheduling_result, result>>

\* Phase 1, after the gather: tag the results, keep the successful ones
GatherParsed ==
    /\ pc = "parse"
    /\ AllSettled(parse_tasks, Len(resumes))
    /\ parsed_candidates' = ParsedCandidates(parse_tasks)
    /\ valid_candidates' = ValidCandidates(ParsedCandidates(parse_tasks))
    /\ pc' = "evaluate"
    /\ UNCHANGED <<calendar, input_data, parse_tasks, eval_tasks, evaluated_candidates,
                   ranked_candidates, qualified_candidates, scheduling_result,
                   calls, result>>

\* the request both evaluation agents get for a candidate
EvaluationRequest(candidate) ==
    [candidate_data |-> Get(candidate, "candidate_data", <<>>),
     job_description |-> job_description]

\* Phase 2, the Skills Matcher of the next valid candidate gets to its call
\* of the text-generation service
BeginSkillsCall ==
    /\ pc = "evaluate"
    /\ Len(eval_tasks) < Len(valid_candidates)
    /\ SkillsMatcherGenerates(EvaluationRequest(valid_candidates[Len(eval_tasks) + 1]))
    /\ pc' = "skills_call"
    /\ UNCHANGED <<calendar, input_data, parse_tasks, parsed_candidates, valid_candidates,
                   eval_tasks, evaluated_candidates, ranked_candidates,
                   qualified_candidates, scheduling_result, calls, result>>

\* Phase 2, the Skills Matcher of the next valid candidate returns; the
\* Cultural-Fit task of the same candidate, created by the same inner
\* gather, runs next
SkillsMatcherReturns ==
    /\ Len(eval_tasks) < Len(valid_candidates)
    /\ LET candidate == valid_candidates[Len(eval_tasks) + 1]
           request == EvaluationRequest(candidate)
       IN  /\ pc = IF SkillsMatcherGenerates(request) THEN "skills_call" ELSE "evaluate"
           /\ \E sr \in SkillsResponses :
                 calls' = Append(calls,
                     [agent |-> "skills_matcher",
                      index |-> candidate.resume_index,
                      request |-> request,
                      response |-> sr,
                      result |-> SkillsMatcherProcess(request, sr),
                      generations |->
                          Len(GenerateCalls("skills_matcher",
                                  SkillsMatcherGenerates(request), sr))])
    /\ pc' = "cultural"
    /\ UNCHANGED <<calendar, input_data, parse_tasks, parsed_candidates, valid_candidates,
                   eval_tasks, evaluated_candidates, ranked_candidates,
                   qualified_candidates, scheduling_result, result>>

\* Phase 2, the Cultural-Fit Analyzer of the candidate gets to its call of
\* the text-generation service
BeginCulturalCall ==
    /\ pc = "cultural"
    /\ CulturalFitGenerates(EvaluationRequest(valid_candidates[Len(eval_tasks) + 1]))
    /\ pc' = "cultural_call"
    /\ UNCHANGED <<calendar, input_data, parse_tasks, parsed_candidates, valid_candidates,
                   eval_tasks, evaluated_candidates, ranked_candidates,
                   qualified_candidates, scheduling_result, calls, result>>

\* Phase 2, one task of the outer gather settles: the Cultural-Fit Analyzer
\* returns and _evaluate_single_candidate combines the two results
EvaluateCandidate ==
    /\ pc \in {"cultural", "cultural_call"}
    /\ LET candidate == valid_candidates[Len(eval_tasks) + 1]
           request == EvaluationRequest(candidate)
           skills_result == calls[Len(calls)].result
       IN  /\ pc = IF CulturalFitGenerates(request) THEN "cultural_call" ELSE "cultural"
           /\ \E cr \in CulturalResponses :
                 /\ eval_tasks' = Append(eval_tasks,
                        Returned(EvaluatedCandidate(candidate, skills_result,
                            CulturalFitProcess(request, cr))))
                 /\ calls' = Append(calls,
                        [agent |-> "cultural_fit",
                         index |-> candidate.resume_index,
                         request |-> request,
                         response |-> cr,
                         result |-> CulturalFitProcess(request, cr),
                         generations |->
                             Len(GenerateCalls("cultural_fit",
                                     CulturalFitGenerates(request), cr))])
    /\ pc' = "evaluate"
    /\ UNCHANGED <<calendar, input_data, parse_tasks, parsed_candidates, valid_candidates,
                   evaluated_candidates, ranked_candidates, qualified_candidates,
                   scheduling_result, result>>

\* Phase 2, one task of the outer gather, when an agent call raises before
\* it gets to the service: the inner gather lets the exception through
EvaluateCandidateRaises ==
    /\ pc = "evaluate"
    /\ Len(eval_tasks) < Len(valid_candidates)
    /\ LET candidate == valid_candidates[Len(eval_tasks) + 1]
       IN  /\ eval_tasks' = Append(eval_tasks, Raised("evaluation raised"))
           /\ calls' = calls \o <<[agent |-> "skills_matcher",
                                    index |-> candidate.resume_index,
                                    request |-> EvaluationRequest(candidate),
                                    generations |-> 0],
                                  [agent |-> "cultural_fit",
                                    index |-> candidate.resume_index,
                                    request |-> EvaluationRequest(candidate),
                                    generations |-> 0]>>
    /\ UNCHANGED <<calendar, input_data, pc, parse_tasks, parsed_candidates, valid_candidates,
                   evaluated_candidates, ranked_candidates, qualified_candidates,
                   scheduling_result, result>>

\* Phase 2, after the outer gather
GatherEvaluated ==
    /\ pc = "evaluate"
    /\ AllSettled(eval_tasks, Len(valid_candidates))
    /\ evaluated_candidates' = EvaluatedCandidates(eval_tasks)
    /\ pc' = "rank"
    /\ UNCHANGED <<calendar, input_data, parse_tasks, parsed_candidates, valid_candidates,
                   eval_tasks, ranked_candidates, qualified_candidates,
                   scheduling_result, calls, result>>

\* Phase 3: _rank_candidates; what it raises lands in the except clause
Rank ==
    /\ pc = "rank"
    /\ IF RankRaises(evaluated_candidates)
       THEN /\ result' = ProcessExcept("'NoneType' object")
            /\ pc' = "done"
            /\ UNCHANGED ranked_candidates
       ELSE /\ ranked_candidates' = RankCandidates(evaluated_candidates)
            /\ pc' = "filter"
            /\ UNCHANGED result
    /\ UNCHANGED <<calendar, input_data, parse_tasks, parsed_candidates, valid_candidates,
                   eval_tasks, evaluated_candidates, qualified_candidates,
                   scheduling_result, calls>>

\* Phase 4: _filter_qualified_candidates
FilterQualified ==
    /\ pc = "filter"
    /\ qualified_candidates' = FilterQualifiedCandidates(ranked_candidates)
    /\ pc' = "schedule"
    /\ UNCHANGED <<calendar, input_data, parse_tasks, parsed_candidates, valid_candidates,
                   eval_tasks, evaluated_candidates, ranked_candidates,
                   scheduling_result, calls, result>>

\* a scheduling condition that looks at the interviewer alone
ShouldScheduleForInterviewer(qualified, email) == email # ""

\* process: if qualified_candidates and interviewer_email
ShouldSchedule(qualified, email) == Len(qualified) > 0 /\ email # ""

\* Phase 4: process gets to its call of the Scheduling Agent, which calls
\* the calendar and the mail service
BeginScheduling ==
    /\ pc = "schedule"
    /\ ShouldSchedule(qualified_candidates, interviewer_email)
    /\ pc' = "scheduler_call"
    /\ UNCHANGED <<calendar, input_data, parse_tasks, parsed_candidates, valid_candidates,
                   eval_tasks, evaluated_candidates, ranked_candidates,
                   qualified_candidates, scheduling_result, calls, result>>

\* Phase 4: the Scheduling Agent, called if there is anyone to schedule and
\* an interviewer, returns
Schedule ==
    /\ pc = IF ShouldSchedule(qualified_candidates, interviewer_email)
            THEN "scheduler_call" ELSE "schedule"
    /\ IF ShouldSchedule(qualified_candidates, interviewer_email)
       THEN \E outcome \in [1..Len(qualified_candidates) -> SchedulingOutcomes] :
                  /\ scheduling_result' = InterviewSchedulerProcess(
                         [candidates |-> qualified_candidates,
                          interviewer_email |-> interviewer_email], outcome)
                  /\ calls' = Append(calls, [agent |-> "interview_scheduler",
                                             candidates |-> qualified_candidates,
                                             interviewer_email |-> interviewer_email,
                                             outcome |-> outcome])
       ELSE /\ scheduling_result' = NoScheduling
            /\ UNCHANGED calls
    /\ pc' = "return"
    /\ UNCHANGED <<calendar, input_data, parse_tasks, parsed_candidates, valid_candidates,
                   eval_tasks, evaluated_candidates, ranked_candidates,
                   qualified_candidates, result>>

\* a summary that counts every Phase 1 result as parsed
SuccessResultCountsAllParsed ==
    [status |-> "success",
     ranked_candidates |-> ranked_candidates,
     processing_summary |->
         [total_resumes |-> Len(resumes),
          successfully_parsed |-> Len(parsed_candidates),
          qualified_candidates |-> Len(qualified_candidates),
          interviews_scheduled |-> Len(Get(scheduling_result, "scheduled_slots", <<>>))],
     scheduled_interviews |-> Get(scheduling_result, "scheduled_slots", <<>>)]

\* the success result of process
SuccessResult ==
    [status |-> "success",
     ranked_candidates |-> ranked_candidates,
     processing_summary |->
         [total_resumes |-> Len(resumes),
          successfully_parsed |-> Len(valid_candidates),
          qualified_candidates |-> Len(qualified_candidates),
          interviews_scheduled |-> Len(Get(scheduling_result, "scheduled_slots", <<>>))],
     scheduled_interviews |-> Get(scheduling_result, "scheduled_slots", <<>>)]

Return ==
    /\ pc = "return"
    /\ result' = SuccessResult
    /\ pc' = "done"
    /\ UNCHANGED <<calendar, input_data, parse_tasks, parsed_candidates, valid_candidates,
                   eval_tasks, evaluated_candidates, ranked_candidates,
                   qualified_candidates, scheduling_result, calls>>

Next ==
    \/ Validate
    \/ BeginParserCall
    \/ ParseResume
    \/ ParseResumeRaises
    \/ GatherParsed
    \/ BeginSkillsCall
    \/ SkillsMatcherReturns
    \/ BeginCulturalCall
    \/ EvaluateCandidate
    \/ EvaluateCandidateRaises
    \/ GatherEvaluated
    \/ Rank
    \/ FilterQualified
    \/ BeginScheduling
    \/ Schedule
    \/ Return

Spec == Init /\ [][Next]_vars

\* process when the event loop keeps running it and every call of the
\* text-generation service, the calendar and the mail service returns or
\* raises in the end: a step that can be taken is taken
FairSpec == Spec /\ WF_vars(Next)

-----------------------------------------------------------------------------
(* _rank_candidates and _filter_qualified_candidates on their own, on lists *)
(* longer than a batch of MaxResumes gives                                  *)

\* evaluated candidates to rank: the percentages the two agents got and the
\* work history
EvaluationProfiles ==
    { [skills |-> 9000, cultural |-> 8000, work_experience |-> List(5)],
      [skills |-> 10000, cultural |-> 6000, work_experience |-> List(5)],
      [skills |-> 7000, cultural |-> 6500, work_experience |-> List(5)],
      [skills |-> 6999, cultural |-> 10000, work_experience |-> List(0)],
      [skills |-> 7000, cultural |-> 6500, work_experience |-> List(0)],
      [skills |-> 7000, cultural |-> 6499, work_experience |-> List(0)] }

NullProfile == [skills |-> 9000, cultural |-> 8000, work_experience |-> Null]

\* the two candidates of the sample batch, 0.95 / 0.90 and 0.75 / 0.70, with
\* work histories of several lengths
ScenarioProfiles ==
    { [skills |-> 9500, cultural |-> 9000, work_experience |-> List(n)] :
        n \in {0, 1, 4} }
      \cup { [skills |-> 7500, cultural |-> 7000, work_experience |-> List(n)] :
                n \in {0, 1, 2, 6} }

\* candidates one of whose evaluation agents failed: the profile has no
\* percentage for that agent
FailedProfiles ==
    { [cultural |-> 8000, work_experience |-> List(5)],
      [skills |-> 9000, work_experience |-> List(1)] }

\* the evaluated candidate of (0-based) index idx with profile p, as Phase 1
\* and Phase 2 build it
ProfileCandidate(p, idx) ==
    LET candidate == [status |-> "success", id |-> CandidateId(idx),
                      resume_index |-> idx,
                      candidate_data |-> [personal_info |-> Dict("Ann"),
                                          work_experience |-> p.work_experience]]
        request == [candidate_data |-> candidate.candidate_data,
                    job_description |-> [title |-> "Engineer"]]
    IN  EvaluatedCandidate(candidate,
            SkillsMatcherProcess(request,
                IF "skills" \in DOMAIN p
                THEN [kind |-> "json", data |-> [overall_match_percentage |-> p.skills]]
                ELSE [kind |-> "raise"]),
            CulturalFitProcess(request,
                IF "cultural" \in DOMAIN p
                THEN [kind |-> "json",
                      data |-> [overall_cultural_fit_score |-> p.cultural]]
                ELSE [kind |-> "raise"]))

PolicyInput ==
    [resumes |-> <<[resume_content |-> "text"]>>,
     job_description |-> [title |-> "Engineer"],
     interviewer_email |-> ""]

InitRank ==
    /\ input_data = PolicyInput
    /\ pc = "rank"
    /\ Idle

\* one more evaluated candidate, in any order of scores
AppendEvaluated ==
    /\ pc = "rank"
    /\ Len(evaluated_candidates) < MaxEvaluated
    /\ \E p \in EvaluationProfiles \cup {NullProfile} \cup ScenarioProfiles
                    \cup FailedProfiles :
          evaluated_candidates' =
              Append(evaluated_candidates, ProfileCandidate(p, Len(evaluated_candidates)))
    /\ UNCHANGED <<calendar, input_data, pc, parse_tasks, parsed_candidates, valid_candidates,
                   eval_tasks, ranked_candidates, qualified_candidates,
                   scheduling_result, calls, result>>

NextRank == AppendEvaluated \/ Rank

SpecRank == InitRank /\ [][NextRank]_vars

InitFilter ==
    /\ input_data = PolicyInput
    /\ pc = "filter"
    /\ Idle

\* one more ranked candidate; the list stays sorted by overall_score, as
\* _rank_candidates leaves it
AppendRanked ==
    /\ pc = "filter"
    /\ Len(ranked_candidates) < MaxRanked
    /\ \E p \in EvaluationProfiles :
          LET e == RankedEntry(ProfileCandidate(p, Len(ranked_candidates)))
          IN  /\ IF Len(ranked_candidates) = 0 THEN TRUE
                 ELSE ranked_candidates[Len(ranked_candidates)].overall_score
                          >= e.overall_score
              /\ ranked_candidates' = Append(ranked_candidates, e)
    /\ UNCHANGED <<calendar, input_data, pc, parse_tasks, parsed_candidates, valid_candidates,
                   eval_tasks, evaluated_candidates, qualified_candidates,
                   scheduling_result, calls, result>>

NextFilter == AppendRanked \/ FilterQualified

SpecFilter == InitFilter /\ [][NextFilter]_vars

-----------------------------------------------------------------------------
(* The three evaluation agents on their own: process called once with a     *)
(* request any of whose keys may be missing or empty.  input_data is the    *)
(* request, result what process returned, calls the calls of the            *)
(* text-generation service it made.                                         *)

\* dictionary d without the keys in absent
Without(d, absent) == [k \in (DOMAIN d) \ absent |-> d[k]]

ParserRequests ==
    { Without([resume_content |-> c], a) :
        c \in {"", "text"}, a \in SUBSET {"resume_content"} }

EvaluationRequests ==
    { Without([candidate_data |-> c, job_description |-> j, company_culture |-> cc], a) :
        c \in {<<>>} \cup CandidatePayloads,
        j \in JobDescriptions,
        cc \in {<<>>, [values |-> "openness"]},
        a \in SUBSET {"candidate_data", "job_description", "company_culture"} }

InitAgents ==
    /\ \/ pc = "resume_parser" /\ input_data \in ParserRequests
       \/ pc = "skills_matcher" /\ input_data \in EvaluationRequests
       \/ pc = "cultural_fit" /\ input_data \in EvaluationRequests
    /\ Idle

ResumeParserRun ==
    /\ pc = "resume_parser"
    /\ \E response \in ParserResponses \cup MalformedResponses :
          /\ result' = ResumeParserProcess(input_data, response)
          /\ calls' = GenerateCalls("resume_parser",
                                    ResumeParserGenerates(input_data), response)
    /\ pc' = "resume_parser_returned"
    /\ UNCHANGED <<calendar, input_data, parse_tasks, parsed_candidates, valid_candidates,
                   eval_tasks, evaluated_candidates, ranked_candidates,
                   qualified_candidates, scheduling_result>>

SkillsMatcherRun ==
    /\ pc = "skills_matcher"
    /\ \E response \in SkillsResponses \cup MalformedResponses :
          /\ result' = SkillsMatcherProcess(input_data, response)
          /\ calls' = GenerateCalls("skills_matcher",
                                    SkillsMatcherGenerates(input_data), response)
    /\ pc' = "skills_matcher_returned"
    /\ UNCHANGED <<calendar, input_data, parse_tasks, parsed_candidates, valid_candidates,
                   eval_tasks, evaluated_candidates, ranked_candidates,
                   qualified_candidates, scheduling_result>>

CulturalFitRun ==
    /\ pc = "cultural_fit"
    /\ \E response \in CulturalResponses \cup MalformedResponses :
          /\ result' = CulturalFitProcess(input_data, response)
          /\ calls' = GenerateCalls("cultural_fit",
                                    CulturalFitGenerates(input_data), response)
    /\ pc' = "cultural_fit_returned"
    /\ UNCHANGED <<calendar, input_data, parse_tasks, parsed_candidates, valid_candidates,
                   eval_tasks, evaluated_candidates, ranked_candidates,
                   qualified_candidates, scheduling_result>>

NextAgents == ResumeParserRun \/ SkillsMatcherRun \/ CulturalFitRun

SpecAgents == InitAgents /\ [][NextAgents]_vars

-----------------------------------------------------------------------------
(* The Scheduling Agent on its own, with the calendar it books into:        *)
(* process called once with a list of candidates.  input_data is the        *)
(* request, scheduling_result the scheduled_slots built so far, calls the   *)
(* record of what happened to each candidate of the loop, result what       *)
(* process returned.  Time is counted in quarters of an hour from the       *)
(* midnight before the run.                                                 *)

\* candidates a run of the Scheduling Agent is asked to schedule, at most
MaxScheduled == 3

\* timedelta(minutes=30), the distance of two slots that are tried
SlotStep == 2

\* duration_minutes, 60 by default
InterviewDuration == 4

\* days_ahead of the free/busy query
DaysAhead == 14

\* the working hours slots may start in: 9 <= hour < 17
WorkStartHour == 9

WorkEndHour == 17

\* current_time.hour
Hour(t) == (t % 96) \div 4

\* what the calendar service answers to the free/busy query: the busy times
\* it had before the run and, if it reports them, the events of the run
BusyTimes(cal) ==
    cal.busy \cup (IF cal.reports_created THEN SeqToSet(cal.created) ELSE {})

\* a slot test that finds every slot free
OverlapsNothing(slot_start, slot_end, busy) == FALSE

\* get_available_slots: current_time < busy_end and slot_end > busy_start
Overlaps(slot_start, slot_end, busy) ==
    slot_start < busy.end /\ slot_end > busy.start

\* get_available_slots compares current_time, which has no time zone, with
\* the busy times parsed from the answer: a TypeError when the answer is
\* not empty and its times carry a zone ('Z' or an offset)
SlotsRaise(cal) == BusyTimes(cal) # {} /\ cal.format = "utc"

\* CalendarService.get_available_slots when it returns: the start times of
\* the free slots, every SlotStep from now on for DaysAhead days, within
\* working hours; none when the query raises HttpError
CalendarGetAvailableSlots(cal, freebusy) ==
    IF freebusy = "http_error" THEN {}
    ELSE {t \in {cal.now + SlotStep * k : k \in 0..((DaysAhead * 96 - 1) \div SlotStep)} :
            /\ WorkStartHour <= Hour(t)
            /\ Hour(t) < WorkEndHour
            /\ \A busy \in BusyTimes(cal) :
                  ~Overlaps(t, t + InterviewDuration, busy)}

\* InterviewSchedulerAgent._get_available_slots: whatever the calendar
\* service raises is caught and gives no slots
GetAvailableSlots(cal, freebusy) ==
    IF freebusy = "ok" /\ SlotsRaise(cal) THEN {}
    ELSE CalendarGetAvailableSlots(cal, freebusy)

\* available_slots[0]: the slots are listed in the order of time
SelectedSlot(slots) == CHOOSE t \in slots : \A u \in slots : t <= u

\* what send_email can do: send, fail and return False, raise
EmailOutcomes == {"sent", "returned_false", "raises"}

\* an invitation that lets the exception of send_email through
InvitationLetsThrough(email) == email = "raises"

\* _send_interview_invitation raises: never, its body is in a try whose
\* except clause logs, and the value send_email returns is not looked at
InvitationRaises(email) == FALSE

\* InterviewSchedulerAgent.process, the entry appended for a candidate with
\* its slot and its calendar event
ScheduledSlotAt(candidate, slot_start, event_id) ==
    [candidate_id |-> ScheduledSlot(candidate).candidate_id,
     candidate_name |-> ScheduledSlot(candidate).candidate_name,
     candidate_email |-> Get(candidate, "email", None),
     start_time |-> slot_start,
     end_time |-> slot_start + InterviewDuration,
     calendar_event_id |-> event_id,
     status |-> ScheduledSlot(candidate).status]

SchedulerRequests ==
    { [candidates |-> [i \in 1..n |-> [id |-> CandidateId(i - 1),
                                       name |-> "Ann",
                                       email |-> "ann@mail.com"]],
       interviewer_email |-> "interviewer@company.com"] : n \in 0..MaxScheduled }

\* the calendar at the start of a run: the time of day (8:45, 9:00, 16:30),
\* the busy times already there, whether the service answers with times
\* that carry a zone, and whether it reports the events of the run as busy
Calendars ==
    [now : {35, 36, 66},
     busy : { {}, {[start |-> 38, end |-> 42]} },
     created : { <<>> },
     format : {"naive", "utc"},
     reports_created : BOOLEAN]

InitScheduler ==
    /\ input_data \in SchedulerRequests
    /\ calendar \in Calendars
    /\ pc = "scheduling"
    /\ parse_tasks = <<>>
    /\ parsed_candidates = <<>>
    /\ valid_candidates = <<>>
    /\ eval_tasks = <<>>
    /\ evaluated_candidates = <<>>
    /\ ranked_candidates = <<>>
    /\ qualified_candidates = <<>>
    /\ scheduling_result = NoScheduling
    /\ calls = <<>>
    /\ result = NoResult

\* one turn of the loop of process, for the next candidate: the free slots
\* are asked for, the first is taken, the event created, the invitation
\* sent and the entry appended; without a slot, or when the calendar raises,
\* the loop goes on to the next candidate
ScheduleCandidate ==
    /\ pc = "scheduling"
    /\ Len(calls) < Len(input_data.candidates)
    /\ \E elapsed \in {0, 1}, freebusy \in {"ok", "http_error"} :
          LET candidate == input_data.candidates[Len(calls) + 1]
              cal == [calendar EXCEPT !.now = @ + elapsed]
          IN  \E slots \in {GetAvailableSlots(cal, freebusy)} :
                LET turn == [candidate_id |-> candidate.id, now |-> cal.now,
                             slots |-> slots]
                IN  IF slots = {}
                    THEN /\ calendar' = cal
                         /\ calls' = Append(calls,
                                turn @@ [event |-> "none", email |-> "none"])
                         /\ UNCHANGED scheduling_result
                    ELSE \E create \in {"ok", "http_error"}, email \in EmailOutcomes,
                            selected_slot \in {SelectedSlot(slots)} :
                         IF create = "http_error"
                         THEN /\ calendar' = cal
                              /\ calls' = Append(calls,
                                     turn @@ [event |-> "http_error", email |-> "none"])
                              /\ UNCHANGED scheduling_result
                         ELSE /\ calendar' =
                                     [cal EXCEPT !.created =
                                         Append(@, [start |-> selected_slot,
                                                    end |-> selected_slot
                                                               + InterviewDuration])]
                              /\ calls' = Append(calls,
                                     turn @@ [event |-> "created", email |-> email])
                              /\ scheduling_result' =
                                     IF InvitationRaises(email) THEN scheduling_result
                                     ELSE [scheduled_slots |->
                                              Append(scheduling_result.scheduled_slots,
                                                  ScheduledSlotAt(candidate, selected_slot,
                                                      Len(calendar.created) + 1))]
    /\ UNCHANGED <<input_data, pc, parse_tasks, parsed_candidates, valid_candidates,
                   eval_tasks, evaluated_candidates, ranked_candidates,
                   qualified_candidates, result>>

\* process returns, at once when there is no candidate
SchedulerReturns ==
    /\ pc = "scheduling"
    /\ Len(calls) = Len(input_data.candidates)
    /\ result' =
          IF Len(input_data.candidates) = 0
          THEN [status |-> "success", scheduled_slots |-> <<>>,
                message |-> "No candidates provided for scheduling"]
          ELSE [status |-> "success",
                scheduled_slots |-> scheduling_result.scheduled_slots,
                total_scheduled |-> Len(scheduling_result.scheduled_slots),
                total_attempted |-> Len(input_data.candidates)]
    /\ pc' = "scheduler_returned"
    /\ UNCHANGED <<input_data, parse_tasks, parsed_candidates, valid_candidates,
                   eval_tasks, evaluated_candidates, ranked_candidates,
                   qualified_candidates, scheduling_result, calls, calendar>>

NextScheduler == ScheduleCandidate \/ SchedulerReturns

SpecScheduler == InitScheduler /\ [][NextScheduler]_vars

-----------------------------------------------------------------------------
(* The claims *)

\* the Phase 1 task of the i-th resume failed: it raised, or the parser
\* returned an error result
ParseFailed(i) ==
    IF parse_tasks[i].raised THEN TRUE ELSE parse_tasks[i].value.status = "error"

FailedParses == {i \in 1..Len(parse_tasks) : ParseFailed(i)}

\* both default thresholds, on the 0-100 scale (hundredths)
PassesThresholds(c) ==
    c.skills_match_score >= 7000 /\ c.cultural_fit_score >= 6500

PassesAndStrong(c) == PassesThresholds(c) /\ c.tier = "strong_match"

\* the threshold-passing candidates of the ranked list, in rank order
Passing == SelectSeq(ranked_candidates, PassesThresholds)

\* C1: in a batch of N resumes of which exactly one fails to parse, the
\* other N-1 have Phase 1 results of status 'success', no evaluation agent
\* is called for the failed one, and the summary of the result reports
\* total_resumes = N and successfully_parsed = N-1.
C1_ParseIsolation ==
    (pc = "done" /\ Len(resumes) > 0 /\ Len(parse_tasks) = Len(resumes)
        /\ Cardinality(FailedParses) = 1)
    => /\ \A i \in 1..Len(resumes) :
            i \notin FailedParses => parsed_candidates[i].status = "success"
       /\ \A k \in 1..Len(calls) :
            calls[k].agent \in {"skills_matcher", "cultural_fit"}
                => (calls[k].index + 1) \notin FailedParses
       /\ result.status = "success"
       /\ result.processing_summary.total_resumes = Len(resumes)
       /\ result.processing_summary.successfully_parsed = Len(resumes) - 1

\* C2: whatever the input and whatever the agents do, process goes on to
\* return, and what it returns has status 'success' or 'error'; no
\* exception leaves it.
C2_NoExceptionEscapes ==
    IF pc = "done" THEN result.status \in {"success", "error"}
    ELSE ENABLED Next

\* C2, its case: an exception raised inside process (by the ranking) was
\* turned into an error result
C2_Witness ==
    /\ pc = "done"
    /\ Len(evaluated_candidates) > 0
    /\ RankRaises(evaluated_candidates)
    /\ result.status = "error"

\* C3: with resumes and a job description given, a failure of single
\* resumes or candidates, a null field of a parsed payload included, never
\* makes the status 'error': process returns 'success' with every
\* evaluated candidate ranked.
C3_PartialFailureIsSuccess ==
    (pc = "done" /\ Len(resumes) > 0 /\ DOMAIN job_description # {})
    => /\ result.status = "success"
       /\ Len(result.ranked_candidates) = Len(evaluated_candidates)

\* C4: without resumes process returns the error 'No resumes provided' with
\* no ranked candidates; with resumes but without a job description, the
\* error 'No job description provided'; either way no agent is ever called.
C4_InputValidation ==
    /\ (Len(resumes) = 0 \/ DOMAIN job_description = {})
        => (calls = <<>> /\ pc \in {"start", "done"})
    /\ (pc = "done" /\ Len(resumes) = 0)
        => /\ result.status = "error"
           /\ result.message = "No resumes provided"
           /\ result.ranked_candidates = <<>>
    /\ (pc = "done" /\ Len(resumes) > 0 /\ DOMAIN job_description = {})
        => /\ result.status = "error"
           /\ result.message = "No job description provided"
           /\ result.ranked_candidates = <<>>

\* C4, its case: process has returned for a batch with resumes and an
\* empty job description
C4_Witness ==
    /\ pc = "done"
    /\ Len(resumes) > 0
    /\ DOMAIN job_description = {}
    /\ result.status = "error"

\* C5: when a threshold-passing candidate is a strong match, the filter
\* returns exactly the threshold-passing strong matches, in rank order, and
\* no threshold-passing moderate match.
C5_StrongPrecedence ==
    (pc = "schedule" /\ SelectSeq(ranked_candidates, PassesAndStrong) # <<>>)
    => /\ qualified_candidates = SelectSeq(ranked_candidates, PassesAndStrong)
       /\ \A i \in 1..Len(ranked_candidates) :
            (PassesThresholds(ranked_candidates[i])
                /\ ranked_candidates[i].tier = "moderate_match")
            => ranked_candidates[i] \notin SeqToSet(qualified_candidates)

\* C5, its case: the filter has run on a list with a passing strong match
\* and a passing moderate match
C5_Witness ==
    /\ pc = "schedule"
    /\ \E i, j \in 1..Len(ranked_candidates) :
          /\ PassesAndStrong(ranked_candidates[i])
          /\ PassesThresholds(ranked_candidates[j])
          /\ ranked_candidates[j].tier = "moderate_match"
    /\ Len(qualified_candidates) > 0

\* C6: when q candidates pass both thresholds and none of them is a strong
\* match, the filter returns the first max(1, q div 5) of them in rank
\* order, and nothing when q = 0.
C6_TopFifthFallback ==
    (pc = "schedule" /\ SelectSeq(ranked_candidates, PassesAndStrong) = <<>>)
    => qualified_candidates =
          SubSeq(Passing, 1,
                 IF Len(Passing) = 0 THEN 0 ELSE Max(1, Len(Passing) \div 5))

\* C6, its case: seven candidates pass, none strong, and the filter has
\* returned the top-ranked of them alone
C6_Witness ==
    /\ pc = "schedule"
    /\ SelectSeq(ranked_candidates, PassesAndStrong) = <<>>
    /\ Len(Passing) = 7
    /\ Len(ranked_candidates) > 7
    /\ qualified_candidates = <<Passing[1]>>

\* C7: every candidate the filter returns, and so every candidate handed to
\* the Scheduling Agent, has skills_match_score >= 70 and
\* cultural_fit_score >= 65, whatever its tier.
C7_QualifiedMeetThresholds ==
    /\ \A i \in 1..Len(qualified_candidates) :
          PassesThresholds(qualified_candidates[i])
    /\ \A k \in 1..Len(calls) :
          calls[k].agent = "interview_scheduler"
          => \A i \in 1..Len(calls[k].candidates) :
                PassesThresholds(calls[k].candidates[i])

\* C7, its case: the Scheduling Agent was called while the ranked list
\* held a strong match in the 0-100 range that fails a threshold
C7_Witness ==
    /\ \E k \in 1..Len(calls) :
          calls[k].agent = "interview_scheduler" /\ Len(calls[k].candidates) > 0
    /\ \E i \in 1..Len(ranked_candidates) :
          /\ ranked_candidates[i].tier = "strong_match"
          /\ ranked_candidates[i].overall_score <= 10000
          /\ ~PassesThresholds(ranked_candidates[i])

\* where the evaluated candidate of this id stood in the input of the ranking
InputPosition(id) ==
    CHOOSE i \in 1..Len(evaluated_candidates) : evaluated_candidates[i].id = id

\* C8: the ranked list has exactly one entry per evaluated candidate, weak
\* matches included, in descending order of overall_score, entries of equal
\* overall_score in their input order; so one evaluated list has one ranking.
C8_RankingIsStableSort ==
    pc = "filter"
    => /\ Len(ranked_candidates) = Len(evaluated_candidates)
       /\ \A i \in 1..Len(evaluated_candidates) :
            Cardinality({j \in 1..Len(ranked_candidates) :
                /\ ranked_candidates[j].id = evaluated_candidates[i].id
                /\ ranked_candidates[j].candidate_data
                       = evaluated_candidates[i].candidate_data}) = 1
       /\ \A j, k \in 1..Len(ranked_candidates) :
            j < k =>
              /\ ranked_candidates[j].overall_score >= ranked_candidates[k].overall_score
              /\ ranked_candidates[j].overall_score = ranked_candidates[k].overall_score
                   => InputPosition(ranked_candidates[j].id)
                        < InputPosition(ranked_candidates[k].id)

\* C8, its case: a ranking that had to reorder its input, with two entries
\* of equal score and a weak match in it
C8_Witness ==
    /\ pc = "filter"
    /\ Len(ranked_candidates) >= 3
    /\ \E j, k \in 1..Len(ranked_candidates) :
          j < k /\ ranked_candidates[j].overall_score = ranked_candidates[k].overall_score
    /\ \E j, k \in 1..Len(ranked_candidates) :
          j < k /\ InputPosition(ranked_candidates[j].id)
                      > InputPosition(ranked_candidates[k].id)
    /\ \E j \in 1..Len(ranked_candidates) : ranked_candidates[j].tier = "weak_match"

\* C9: every ranked candidate has 0 <= overall_score <= 100, whatever
\* percentages the text-generation service reports.
C9_OverallScoreInRange ==
    \A i \in 1..Len(ranked_candidates) :
        /\ 0 <= ranked_candidates[i].overall_score
        /\ ranked_candidates[i].overall_score <= 10000

\* C10: the tier of every ranked candidate follows from its reported
\* overall_score alone: strong_match iff >= 85, moderate_match iff in
\* [70, 85), weak_match iff < 70.
C10_TierFromReportedScore ==
    \A i \in 1..Len(ranked_candidates) :
        LET c == ranked_candidates[i]
        IN  /\ c.tier = "strong_match" <=> c.overall_score >= 8500
            /\ c.tier = "moderate_match"
                 <=> (7000 <= c.overall_score /\ c.overall_score < 8500)
            /\ c.tier = "weak_match" <=> c.overall_score < 7000

\* the invocations of the Scheduling Agent made so far
SchedulerCalls == {k \in 1..Len(calls) : calls[k].agent = "interview_scheduler"}

\* the run went through Phase 4: the input was complete and the ranking did
\* not raise
ReachedScheduling ==
    /\ pc \in {"return", "done"}
    /\ Len(resumes) > 0
    /\ DOMAIN job_description # {}
    /\ ~RankRaises(evaluated_candidates)

\* C11: the Scheduling Agent is invoked once, with the whole qualified set
\* and the interviewer, exactly when an interviewer is given and someone
\* qualified; otherwise it is never invoked, no interview is reported and the
\* status is still 'success'.
C11_ConditionalScheduling ==
    /\ ~ReachedScheduling => SchedulerCalls = {}
    /\ ReachedScheduling =>
          IF interviewer_email # "" /\ qualified_candidates # <<>>
          THEN /\ Cardinality(SchedulerCalls) = 1
               /\ \A k \in SchedulerCalls :
                     /\ calls[k].candidates = qualified_candidates
                     /\ calls[k].interviewer_email = interviewer_email
          ELSE /\ SchedulerCalls = {}
               /\ pc = "done" =>
                     /\ result.status = "success"
                     /\ result.scheduled_interviews = <<>>
                     /\ result.processing_summary.interviews_scheduled = 0

\* C11, its case: process has returned after one invocation of the
\* Scheduling Agent with two qualified candidates
C11_Witness ==
    /\ pc = "done"
    /\ Cardinality(SchedulerCalls) = 1
    /\ Len(qualified_candidates) = 2
    /\ interviewer_email # ""

\* the candidate ids of a list of scheduled slots
SlotIds(slots) == {slots[i].candidate_id : i \in 1..Len(slots)}

\* C12: in a run of the Scheduling Agent, every candidate for whom a slot is
\* found and the event created is in scheduled_slots, whatever happened to
\* the candidates before or after it, and the status of process stays
\* 'success'.
C12_NoCascadeScheduling ==
    \A k \in SchedulerCalls :
        /\ \A i \in 1..Len(calls[k].candidates) :
              calls[k].outcome[i] = "scheduled"
                  => calls[k].candidates[i].id \in SlotIds(scheduling_result.scheduled_slots)
        /\ pc = "done" =>
              /\ result.status = "success"
              /\ result.scheduled_interviews = scheduling_result.scheduled_slots

\* C12, its case: scheduling failed for the first of two candidates and the
\* second is among the scheduled interviews of the result
C12_Witness ==
    /\ pc = "done"
    /\ \E k \in SchedulerCalls :
          /\ Len(calls[k].candidates) = 2
          /\ calls[k].outcome[1] \in {"no_slots", "calendar_error"}
          /\ calls[k].outcome[2] = "scheduled"
          /\ SlotIds(result.scheduled_interviews) = {calls[k].candidates[2].id}

\* what the threshold and tier policy selects from the ranked list
PolicySelection ==
    IF SelectSeq(ranked_candidates, PassesAndStrong) # <<>>
    THEN SelectSeq(ranked_candidates, PassesAndStrong)
    ELSE SubSeq(Passing, 1,
                IF Len(Passing) = 0 THEN 0 ELSE Max(1, Len(Passing) \div 5))

\* C13: the summary of a success result counts exactly: the input resumes,
\* the Phase 1 results of status 'success', the candidates the policy
\* selected (those offered to the Scheduling Agent), and the scheduled
\* interviews of the result.
C13_SummaryCounts ==
    (pc = "done" /\ result.status = "success")
    => LET summary == result.processing_summary
       IN  /\ summary.total_resumes = Len(Get(input_data, "resumes", <<>>))
           /\ summary.successfully_parsed =
                 Cardinality({i \in 1..Len(parsed_candidates) :
                                 parsed_candidates[i].status = "success"})
           /\ summary.successfully_parsed =
                 Cardinality({i \in 1..Len(parse_tasks) : ~ParseFailed(i)})
           /\ summary.qualified_candidates = Len(PolicySelection)
           /\ \A k \in SchedulerCalls :
                 summary.qualified_candidates = Len(calls[k].candidates)
           /\ summary.interviews_scheduled = Len(result.scheduled_interviews)

\* C13, its case: a success result of a batch in which one resume failed to
\* parse and the one qualified candidate got an interview
C13_Witness ==
    /\ pc = "done"
    /\ result.status = "success"
    /\ result.processing_summary.total_resumes = 2
    /\ result.processing_summary.successfully_parsed = 1
    /\ result.processing_summary.qualified_candidates = 1
    /\ result.processing_summary.interviews_scheduled = 1

\* C14 as the spec has it: every result of process, success or error, has
\* the fields status, ranked_candidates, processing_summary and
\* scheduled_interviews.
C14_FourFieldsAlways ==
    pc = "done"
    => {"status", "ranked_candidates", "processing_summary", "scheduled_interviews"}
          \subseteq DOMAIN result

\* C14 amended: a success result has exactly the fields status,
\* ranked_candidates, processing_summary and scheduled_interviews; an error
\* result has exactly status, message and an empty ranked_candidates.
C14_ResultShape ==
    pc = "done"
    => IF result.status = "success"
       THEN DOMAIN result = {"status", "ranked_candidates", "processing_summary",
                             "scheduled_interviews"}
       ELSE /\ result.status = "error"
            /\ DOMAIN result = {"status", "message", "ranked_candidates"}
            /\ result.ranked_candidates = <<>>

\* C14, its case: the error result of a batch whose ranking raised, without
\* summary and without scheduled interviews
C14_Witness ==
    /\ pc = "done"
    /\ Len(valid_candidates) > 0
    /\ result.status = "error"
    /\ "processing_summary" \notin DOMAIN result
    /\ "scheduled_interviews" \notin DOMAIN result

\* the invocations of the two evaluation agents that returned a result
EvaluationCalls(agent) ==
    {k \in 1..Len(calls) : calls[k].agent = agent /\ "result" \in DOMAIN calls[k]}

\* C15: a success result of the Skills Matcher has 0 <= match_score <= 1
\* and one of the Cultural-Fit Analyzer 0 <= cultural_fit_score <= 1,
\* whatever percentage the service reports; for a percentage p in 0..100
\* the score is p / 100 and the ranked candidate shows p again.
C15_ScoresNormalized ==
    /\ \A k \in EvaluationCalls("skills_matcher") :
          calls[k].result.status = "success"
          => LET p == calls[k].response.data.overall_match_percentage
                 score == calls[k].result.match_score
             IN  /\ 0 <= score /\ score <= 1000000
                 /\ (0 <= p /\ p <= 10000) =>
                       /\ score * 100 = p * 10000
                       /\ \A i \in 1..Len(ranked_candidates) :
                             ranked_candidates[i].id = CandidateId(calls[k].index)
                                => ranked_candidates[i].skills_match_score = p
    /\ \A k \in EvaluationCalls("cultural_fit") :
          calls[k].result.status = "success"
          => LET p == calls[k].response.data.overall_cultural_fit_score
                 score == calls[k].result.cultural_fit_score
             IN  /\ 0 <= score /\ score <= 1000000
                 /\ (0 <= p /\ p <= 10000) =>
                       /\ score * 100 = p * 10000
                       /\ \A i \in 1..Len(ranked_candidates) :
                             ranked_candidates[i].id = CandidateId(calls[k].index)
                                => ranked_candidates[i].cultural_fit_score = p

\* the evaluation of the candidate of this id failed: its task raised (the
\* candidate is then not among the evaluated ones), or one of the two
\* agents returned an error result
EvaluationFailed(id) ==
    \A j \in 1..Len(evaluated_candidates) :
        evaluated_candidates[j].id = id
        => \/ evaluated_candidates[j].skills_evaluation.status # "success"
           \/ evaluated_candidates[j].cultural_evaluation.status # "success"

\* C17: a parsed candidate whose skills or cultural-fit evaluation failed,
\* by raising or by an error result, is not among the ranked candidates:
\* every ranked candidate has both evaluations, each of status 'success'.
C17_FailedEvaluationDropped ==
    \A i \in 1..Len(ranked_candidates) :
        ~EvaluationFailed(ranked_candidates[i].id)

\* Phase 1 is over for a batch that passed the input checks
ParsedPhaseOver ==
    /\ pc \notin {"start", "parse", "parser_call"}
    /\ Len(resumes) > 0
    /\ DOMAIN job_description # {}

\* C18: the output of Phase 1 is as long as the input, and its element i,
\* whatever the outcome of the task, has a status, resume_index = i and
\* id = 'candidate_i'; an error element has the message of the failure.
C18_EveryResultTagged ==
    ParsedPhaseOver
    => /\ Len(parsed_candidates) = Len(resumes)
       /\ \A i \in 1..Len(parsed_candidates) :
             LET c == parsed_candidates[i]
             IN  /\ "status" \in DOMAIN c
                 /\ c.status \in {"success", "error"}
                 /\ Get(c, "resume_index", None) = i - 1
                 /\ Get(c, "id", None) = CandidateId(i - 1)
                 /\ c.status = "error"
                       => ("message" \in DOMAIN c \/ "error" \in DOMAIN c)

\* the candidate data the parser returned for the resume of (0-based) index idx
ParsedData(idx) == parse_tasks[idx + 1].value.candidate_data

\* C19: results stay with their candidate: every evaluation is computed
\* from the candidate data parsed from one input resume and the job
\* description of the batch, and the ranked entry 'candidate_i' has the data
\* parsed from resume i and the scores of the evaluations made from it.
C19_ResultsKeepTheirCandidate ==
    /\ \A k \in 1..Len(calls) :
          calls[k].agent \in {"skills_matcher", "cultural_fit"}
          => /\ ~ParseFailed(calls[k].index + 1)
             /\ calls[k].request.candidate_data = ParsedData(calls[k].index)
             /\ calls[k].request.job_description = Get(input_data, "job_description", <<>>)
    /\ \A k \in 1..Len(eval_tasks) :
          ~eval_tasks[k].raised
          => LET v == eval_tasks[k].value
             IN  /\ v.id = CandidateId(v.resume_index)
                 /\ v.candidate_data = ParsedData(v.resume_index)
                 /\ \E a \in EvaluationCalls("skills_matcher") :
                       calls[a].index = v.resume_index
                          /\ calls[a].result = v.skills_evaluation
                 /\ \E a \in EvaluationCalls("cultural_fit") :
                       calls[a].index = v.resume_index
                          /\ calls[a].result = v.cultural_evaluation
    /\ \A i \in 1..Len(ranked_candidates) :
          \E idx \in 0..(Len(resumes) - 1) :
              /\ ranked_candidates[i].id = CandidateId(idx)
              /\ ranked_candidates[i].candidate_data = ParsedData(idx)
              /\ \A a \in EvaluationCalls("skills_matcher") :
                    calls[a].index = idx
                    => ranked_candidates[i].skills_match_score
                          = RoundHalfEven(Get(calls[a].result, "match_score", 0), 100)
              /\ \A a \in EvaluationCalls("cultural_fit") :
                    calls[a].index = idx
                    => ranked_candidates[i].cultural_fit_score
                          = RoundHalfEven(Get(calls[a].result, "cultural_fit_score", 0), 100)

\* C19, its case: two candidates with different data and different scores
\* were ranked, the one of the second resume first
C19_Witness ==
    /\ pc = "done"
    /\ Len(ranked_candidates) = 2
    /\ ranked_candidates[1].id = "candidate_1"
    /\ ranked_candidates[2].id = "candidate_0"
    /\ ranked_candidates[1].candidate_data # ranked_candidates[2].candidate_data
    /\ ranked_candidates[1].skills_match_score # ranked_candidates[2].skills_match_score
    /\ ranked_candidates[1].cultural_fit_score # ranked_candidates[2].cultural_fit_score

\* a request has no candidate data, or empty candidate data
NoCandidateData == DOMAIN Get(input_data, "candidate_data", <<>>) = {}

\* a request has no job description, or an empty one
NoJobDescription == DOMAIN Get(input_data, "job_description", <<>>) = {}

\* C16: the Resume Parser given no or empty resume_content, and the Skills
\* Matcher given no or empty candidate_data or job_description, return a
\* result of status 'error' with a message and call the text-generation
\* service not once.
C16_AgentInputValidation ==
    /\ (pc = "resume_parser_returned" /\ Get(input_data, "resume_content", "") = "")
          => /\ result.status = "error"
             /\ "message" \in DOMAIN result
             /\ calls = <<>>
    /\ (pc = "skills_matcher_returned" /\ (NoCandidateData \/ NoJobDescription))
          => /\ result.status = "error"
             /\ "message" \in DOMAIN result
             /\ calls = <<>>

\* C16, its case: the Skills Matcher has returned for a request with
\* candidate data and an empty job description
C16_Witness ==
    /\ pc = "skills_matcher_returned"
    /\ ~NoCandidateData
    /\ "job_description" \in DOMAIN input_data
    /\ NoJobDescription
    /\ result.status = "error"

\* C20: the Cultural-Fit Analyzer returns a result of status 'error' and
\* calls the text-generation service not once whenever candidate_data is
\* empty or job_description is empty.
C20_CulturalFitNeedsJobDescription ==
    (pc = "cultural_fit_returned" /\ (NoCandidateData \/ NoJobDescription))
    => /\ result.status = "error"
       /\ calls = <<>>

\* the ids of the entries of a list of candidates
CandidateIds(candidates) == {candidates[i].id : i \in 1..Len(candidates)}

\* the ids of the Phase 1 results of status 'success'
SuccessfullyParsedIds ==
    {parsed_candidates[i].id :
        i \in {j \in 1..Len(parsed_candidates) :
                  Get(parsed_candidates[j], "status", None) = "success"}}

\* C28: in a success result the counts never grow from phase to phase:
\* scheduled <= qualified <= ranked <= successfully parsed <= total, and the
\* ids go the same way: every scheduled interview is of a qualified
\* candidate, every qualified candidate is ranked, every ranked candidate is
\* a successfully parsed resume.
C28_CountsNeverGrow ==
    (pc = "done" /\ result.status = "success")
    => LET s == result.processing_summary
       IN  /\ s.interviews_scheduled <= s.qualified_candidates
           /\ s.qualified_candidates <= Len(result.ranked_candidates)
           /\ Len(result.ranked_candidates) <= s.successfully_parsed
           /\ s.successfully_parsed <= s.total_resumes
           /\ SlotIds(result.scheduled_interviews)
                 \subseteq CandidateIds(qualified_candidates)
           /\ CandidateIds(qualified_candidates)
                 \subseteq CandidateIds(result.ranked_candidates)
           /\ CandidateIds(result.ranked_candidates) \subseteq SuccessfullyParsedIds

\* C28 witness: a success result with an interview scheduled and fewer
\* interviews than qualified candidates, fewer ranked than input resumes
C28_Witness ==
    /\ pc = "done"
    /\ result.status = "success"
    /\ result.processing_summary.interviews_scheduled = 1
    /\ result.processing_summary.qualified_candidates = 2

\* C28 second witness: a success result in which a resume was lost in Phase 1
\* and the remaining candidate was scheduled
C28_WitnessLostResume ==
    /\ pc = "done"
    /\ result.status = "success"
    /\ result.processing_summary.interviews_scheduled = 1
    /\ result.processing_summary.successfully_parsed
          < result.processing_summary.total_resumes

\* the evaluated candidate a ranked entry was computed from
EvaluatedOf(entry) ==
    CHOOSE c \in SeqToSet(evaluated_candidates) : c.id = entry.id

\* number of work-experience entries of an evaluated candidate
WorkEntries(c) == Get(c.candidate_data, "work_experience", List(0)).len

\* skills score of an evaluated candidate, in millionths; 0 when missing
SkillsScoreOf(c) == Get(Get(c, "skills_evaluation", <<>>), "match_score", 0)

\* cultural score of an evaluated candidate, in millionths; 0 when missing
CulturalScoreOf(c) ==
    Get(Get(c, "cultural_evaluation", <<>>), "cultural_fit_score", 0)

\* 100 * min(2n / 10, 1) in hundredths of a percent
ExpectedExperience(n) == IF n >= 5 THEN 10000 ELSE 2000 * n

\* 100 * (0.6 s + 0.3 c + 0.1 min(2n / 10, 1)) rounded to two decimals, in
\* hundredths of a percent, s and c being in millionths
ExpectedOverall(s, c, n) ==
    RoundHalfEven(6 * s + 3 * c + 100 * ExpectedExperience(n), 1000)

\* C25: every ranked entry of a candidate with n work-experience entries and
\* scores s, c in 0..1 reports experience_score = 100 * min(2n/10, 1) and
\* overall_score = 100 * (0.6 s + 0.3 c + 0.1 min(2n/10, 1)) rounded to two
\* decimals; a score the evaluation does not have counts as 0.
C25_ScoreFormula ==
    \A i \in 1..Len(ranked_candidates) :
        LET e == ranked_candidates[i]
            c == EvaluatedOf(e)
        IN  (SkillsScoreOf(c) \in 0..1000000 /\ CulturalScoreOf(c) \in 0..1000000)
            => /\ e.experience_score = ExpectedExperience(WorkEntries(c))
               /\ e.overall_score
                     = ExpectedOverall(SkillsScoreOf(c), CulturalScoreOf(c),
                                       WorkEntries(c))
               /\ "match_score" \notin DOMAIN c.skills_evaluation
                     => e.skills_match_score = 0
               /\ "cultural_fit_score" \notin DOMAIN c.cultural_evaluation
                     => e.cultural_fit_score = 0

\* C25 witness: a ranking with a candidate of more than five work-experience
\* entries, whose experience score is capped at 100, and a candidate whose
\* skills evaluation has no match_score, ranked with 0.3 c + 0.1 experience
C25_Witness ==
    /\ \E i \in 1..Len(ranked_candidates) :
          /\ WorkEntries(EvaluatedOf(ranked_candidates[i])) = 6
          /\ ranked_candidates[i].experience_score = 10000
          /\ ranked_candidates[i].overall_score = 7600
    /\ \E i \in 1..Len(ranked_candidates) :
          /\ "match_score" \notin
                DOMAIN EvaluatedOf(ranked_candidates[i]).skills_evaluation
          /\ ranked_candidates[i].overall_score = 3400

\* the ranked entries of the candidates with skills score s and cultural
\* score c (millionths)
ScenarioEntries(s, c) ==
    {i \in 1..Len(ranked_candidates) :
        /\ SkillsScoreOf(EvaluatedOf(ranked_candidates[i])) = s
        /\ CulturalScoreOf(EvaluatedOf(ranked_candidates[i])) = c}

\* C26 as claimed: whatever the number of work-experience entries, a
\* candidate with scores 0.95 / 0.90 is ranked strong_match and a candidate
\* with scores 0.75 / 0.70 is ranked moderate_match.
C26_ScenarioTiersAnyHistory ==
    /\ \A i \in ScenarioEntries(950000, 900000) :
          ranked_candidates[i].tier = "strong_match"
    /\ \A i \in ScenarioEntries(750000, 700000) :
          ranked_candidates[i].tier = "moderate_match"

\* C26 amended: a candidate with scores 0.95 / 0.90 is ranked strong_match
\* (overall 86 to 94) when it has at least one work-experience entry, and a
\* candidate with scores 0.75 / 0.70 is ranked moderate_match (overall 70 to
\* 76) when it has at least two.
C26_ScenarioTiers ==
    /\ \A i \in ScenarioEntries(950000, 900000) :
          WorkEntries(EvaluatedOf(ranked_candidates[i])) >= 1
          => /\ ranked_candidates[i].tier = "strong_match"
             /\ ranked_candidates[i].overall_score \in 8600..9400
    /\ \A i \in ScenarioEntries(750000, 700000) :
          WorkEntries(EvaluatedOf(ranked_candidates[i])) >= 2
          => /\ ranked_candidates[i].tier = "moderate_match"
             /\ ranked_candidates[i].overall_score \in 7000..7600

\* C26 witness: a ranking with a 0.95 / 0.90 candidate of one entry at 86.0
\* and a 0.75 / 0.70 candidate of two entries at 70.0
C26_Witness ==
    /\ \E i \in ScenarioEntries(950000, 900000) :
          /\ WorkEntries(EvaluatedOf(ranked_candidates[i])) = 1
          /\ ranked_candidates[i].overall_score = 8600
          /\ ranked_candidates[i].tier = "strong_match"
    /\ \E i \in ScenarioEntries(750000, 700000) :
          /\ WorkEntries(EvaluatedOf(ranked_candidates[i])) = 2
          /\ ranked_candidates[i].overall_score = 7000
          /\ ranked_candidates[i].tier = "moderate_match"

\* the agent that was run on its own has returned
AgentReturned ==
    pc \in {"resume_parser_returned", "skills_matcher_returned",
            "cultural_fit_returned"}

\* C22: when the text-generation call of an agent raises, or returns text
\* that is not a JSON object once the code fences are stripped, process
\* returns (it does not raise) a result of status 'error' with a message,
\* and in the malformed-response case the result carries the raw response.
C22_MalformedResponseIsError ==
    (AgentReturned /\ Len(calls) = 1)
    => /\ calls[1].response.kind \in {"raise", "text", "json_value"}
             => /\ result.status = "error"
                /\ "message" \in DOMAIN result
       /\ calls[1].response.kind \in {"text", "json_value"}
             => "raw_response" \in DOMAIN result

\* the invocations of an agent made so far for the resume of (0-based)
\* index idx
Invocations(agent, idx) ==
    {k \in 1..Len(calls) : calls[k].agent = agent /\ calls[k].index = idx}

\* the invocations of the three evaluation agents made so far
AgentInvocations ==
    {k \in 1..Len(calls) :
        calls[k].agent \in {"resume_parser", "skills_matcher", "cultural_fit"}}

\* Phase 2 is over
EvaluationOver == pc \in {"rank", "filter", "schedule", "scheduler_call", "return"}
                    \/ (pc = "done" /\ InputError(resumes, job_description) = None)

\* C21: nothing is tried twice.  The Resume Parser is invoked at most once
\* per resume, and exactly once when Phase 1 is over; the Skills Matcher and
\* the Cultural-Fit Analyzer are invoked at most once per resume, exactly
\* once per successfully parsed candidate when Phase 2 is over, and never
\* for a resume whose parse failed; an invocation makes at most one call of
\* the text-generation service, and exactly one when the call raises.
C21_NoRetry ==
    /\ \A idx \in 0..(Len(resumes) - 1) :
          /\ Cardinality(Invocations("resume_parser", idx))
                = (IF idx < Len(parse_tasks) THEN 1 ELSE 0)
          /\ \A agent \in {"skills_matcher", "cultural_fit"} :
                /\ Cardinality(Invocations(agent, idx)) <= 1
                /\ (idx < Len(parse_tasks) /\ ParseFailed(idx + 1))
                      => Invocations(agent, idx) = {}
                /\ (EvaluationOver /\ ~ParseFailed(idx + 1))
                      => Cardinality(Invocations(agent, idx)) = 1
    /\ ParsedPhaseOver
          => \A idx \in 0..(Len(resumes) - 1) :
                Cardinality(Invocations("resume_parser", idx)) = 1
    /\ \A k \in AgentInvocations :
          /\ calls[k].generations <= 1
          /\ ("response" \in DOMAIN calls[k] /\ calls[k].response.kind = "raise")
                => calls[k].generations
                      = (IF calls[k].result.message = "generation failed"
                         THEN 1 ELSE 0)
    /\ \A i \in 1..Len(parse_tasks) :
          (~parse_tasks[i].raised
              /\ Get(parse_tasks[i].value, "message", None) = "generation failed")
          => \A k \in Invocations("resume_parser", i - 1) : calls[k].generations = 1

\* C21 witness: a finished run in which the parser's call of the service
\* raised for the first resume, which was then not evaluated, and the
\* Skills Matcher's call raised for the second: each was made once
C21_Witness ==
    /\ pc = "done"
    /\ Len(parse_tasks) = 2
    /\ ~parse_tasks[1].raised
    /\ Get(parse_tasks[1].value, "message", None) = "generation failed"
    /\ \E k \in Invocations("resume_parser", 0) : calls[k].generations = 1
    /\ Invocations("skills_matcher", 0) = {}
    /\ \E k \in Invocations("skills_matcher", 1) :
          /\ calls[k].response.kind = "raise"
          /\ calls[k].generations = 1
    /\ Cardinality(Invocations("cultural_fit", 1)) = 1

\* a Skills-Matcher or Cultural-Fit call has started
EvaluationStarted ==
    \/ pc \in {"skills_call", "cultural", "cultural_call"}
    \/ \E k \in 1..Len(calls) : calls[k].agent \in {"skills_matcher", "cultural_fit"}

\* the Scheduling Agent has been invoked
SchedulingStarted == pc = "scheduler_call" \/ SchedulerCalls # {}

\* every Phase 1 task has settled, none is at its external call
ParsingSettled == Len(parse_tasks) = Len(resumes) /\ pc # "parser_call"

\* every Phase 2 task has settled, none is at an external call
EvaluationSettled ==
    /\ ParsingSettled
    /\ valid_candidates = ValidCandidates(ParsedCandidates(parse_tasks))
    /\ Len(eval_tasks) = Len(valid_candidates)
    /\ pc \notin {"skills_call", "cultural", "cultural_call"}

\* the phase an agent belongs to
PhaseOf(agent) ==
    IF agent = "resume_parser" THEN 1
    ELSE IF agent = "interview_scheduler" THEN 4
    ELSE 2

\* C24: the phases never overlap.  No Skills-Matcher or Cultural-Fit call has
\* started unless every parse task has settled; a ranking exists only when
\* every evaluation task has settled; the Scheduling Agent has been invoked
\* only when the ranking and the qualified set are complete; and in the
\* record of the calls every parser call comes before every evaluation
\* call, every evaluation call before the scheduler call.
C24_PhasesInOrder ==
    /\ EvaluationStarted => ParsingSettled
    /\ (ranked_candidates # <<>> \/ pc \in {"filter", "schedule"})
          => /\ EvaluationSettled
             /\ evaluated_candidates = EvaluatedCandidates(eval_tasks)
    /\ SchedulingStarted
          => /\ EvaluationSettled
             /\ Len(ranked_candidates) = Len(evaluated_candidates)
             /\ qualified_candidates = PolicySelection
    /\ \A k1, k2 \in 1..Len(calls) :
          k1 < k2 => PhaseOf(calls[k1].agent) <= PhaseOf(calls[k2].agent)

\* C24 witness: a finished run of two resumes, both parsed, both evaluated
\* and ranked, with the Scheduling Agent invoked last
C24_Witness ==
    /\ pc = "done"
    /\ Len(parse_tasks) = 2
    /\ Len(eval_tasks) = 2
    /\ Len(ranked_candidates) = 2
    /\ SchedulerCalls = {Len(calls)}
    /\ Len(calls) = 7

\* C23: agent invocations overlap.  While the parser's call of the service
\* for one resume is in flight and a later resume of the batch has content
\* to parse, the call for the next resume can start; and while the Skills
\* Matcher's call for a candidate is in flight, the Cultural-Fit call for
\* the same candidate can start.
C23_CallsOverlap ==
    /\ (pc = "parser_call"
          /\ \E j \in (Len(parse_tasks) + 2)..Len(resumes) :
                ResumeParserGenerates(resumes[j]))
       => ENABLED BeginParserCall
    /\ pc = "skills_call" => ENABLED BeginCulturalCall

\* an external call is in flight: the text-generation service for one of the
\* three agents, or the calendar and mail service for the Scheduling Agent
CallInFlight ==
    pc \in {"parser_call", "skills_call", "cultural_call", "scheduler_call"}

\* the step that ends the call in flight: the answer of the service comes
\* back and the invocation it belongs to settles
CallCompletes ==
    /\ pc = "parser_call"
          => /\ Len(parse_tasks') = Len(parse_tasks) + 1
             /\ pc' = "parse"
    /\ pc = "skills_call"
          => /\ Len(calls') = Len(calls) + 1
             /\ calls'[Len(calls')].agent = "skills_matcher"
             /\ pc' = "cultural"
    /\ pc = "cultural_call"
          => /\ Len(eval_tasks') = Len(eval_tasks) + 1
             /\ calls'[Len(calls')].agent = "cultural_fit"
             /\ pc' = "evaluate"
    /\ pc = "scheduler_call"
          => /\ calls'[Len(calls')].agent = "interview_scheduler"
             /\ pc' = "return"

\* C27: when every external call returns or raises in the end, process
\* returns a result in the end; and there is no timeout or cancellation:
\* while a call is in flight the only step process can take is the end of
\* that call, it has no result before, so a call that never ends keeps it
\* from ever returning.
C27_TerminatesWithoutTimeout ==
    /\ <>(pc = "done" /\ result # NoResult)
    /\ [][CallInFlight => (CallCompletes /\ result = NoResult /\ result' = NoResult)]_vars

\* C27 witness: process has returned a success result after calls of the
\* text-generation service by all three agents and a call of the Scheduling
\* Agent in which the calendar raised for a candidate
C27_Witness ==
    /\ pc = "done"
    /\ result # NoResult
    /\ result.status = "success"
    /\ \E k \in AgentInvocations :
          calls[k].agent = "resume_parser" /\ calls[k].generations = 1
    /\ \E k \in AgentInvocations :
          calls[k].agent = "skills_matcher" /\ calls[k].generations = 1
    /\ \E k \in AgentInvocations :
          calls[k].agent = "cultural_fit" /\ calls[k].generations = 1
    /\ \E k \in SchedulerCalls :
          \E i \in DOMAIN calls[k].outcome : calls[k].outcome[i] = "calendar_error"

\* the turn of the loop of the Scheduling Agent that dealt with a candidate
TurnsOf(id) == {k \in 1..Len(calls) : calls[k].candidate_id = id}

\* the entries of scheduled_slots so far
Slots == scheduling_result.scheduled_slots

\* C29: a candidate is in scheduled_slots, with status 'scheduled', exactly
\* when a free slot was found for it and its calendar event was created; a
\* notification that failed (send_email raised or returned False) leaves
\* the candidate in scheduled_slots and its event in the calendar, and the
\* entry says nothing about the email.
C29_ScheduledIffEventCreated ==
    pc \in {"scheduling", "scheduler_returned"}
    => /\ \A k \in 1..Len(calls) :
             /\ calls[k].candidate_id \in SlotIds(Slots)
                   <=> (calls[k].slots # {} /\ calls[k].event = "created")
             /\ calls[k].email \in {"returned_false", "raises"}
                   => \E i \in 1..Len(Slots) :
                         /\ Slots[i].candidate_id = calls[k].candidate_id
                         /\ Slots[i].status = "scheduled"
                         /\ Slots[i].calendar_event_id \in 1..Len(calendar.created)
                         /\ calendar.created[Slots[i].calendar_event_id].start
                               = Slots[i].start_time
       /\ \A i \in 1..Len(Slots) :
             /\ Slots[i].status = "scheduled"
             /\ DOMAIN Slots[i] =
                   {"candidate_id", "candidate_name", "candidate_email",
                    "start_time", "end_time", "calendar_event_id", "status"}
       /\ pc = "scheduler_returned" => result.scheduled_slots = Slots

\* C29 witness: the run has returned with a candidate scheduled whose
\* invitation raised, one whose invitation came back False, and one for
\* whom the calendar raised and who is not in scheduled_slots
C29_Witness ==
    /\ pc = "scheduler_returned"
    /\ \E k \in 1..Len(calls) :
          calls[k].email = "raises" /\ calls[k].candidate_id \in SlotIds(Slots)
    /\ \E k \in 1..Len(calls) :
          calls[k].email = "returned_false" /\ calls[k].candidate_id \in SlotIds(Slots)
    /\ \E k \in 1..Len(calls) :
          calls[k].event = "http_error" /\ calls[k].candidate_id \notin SlotIds(Slots)

\* C30: no double booking in a run of the Scheduling Agent, when the
\* calendar service reports the events created earlier in the run as busy:
\* the candidates are dealt with one at a time in the order of the request,
\* a candidate has at most one entry in scheduled_slots, the entry has the
\* earliest of the slots returned for that candidate, and no two entries
\* overlap as intervals [start_time, end_time).
C30_NoDoubleBooking ==
    (pc \in {"scheduling", "scheduler_returned"} /\ calendar.reports_created)
    => /\ \A k \in 1..Len(calls) :
             calls[k].candidate_id = input_data.candidates[k].id
       /\ \A i, j \in 1..Len(Slots) :
             i < j
             => /\ Slots[i].candidate_id # Slots[j].candidate_id
                /\ \E ki \in TurnsOf(Slots[i].candidate_id),
                      kj \in TurnsOf(Slots[j].candidate_id) : ki < kj
                /\ ~(Slots[i].start_time < Slots[j].end_time
                       /\ Slots[j].start_time < Slots[i].end_time)
       /\ \A i \in 1..Len(Slots) :
             /\ Slots[i].end_time = Slots[i].start_time + 4
             /\ \A k \in TurnsOf(Slots[i].candidate_id) :
                   /\ Slots[i].start_time \in calls[k].slots
                   /\ \A t \in calls[k].slots : Slots[i].start_time <= t

\* C30 witness: the calendar reports the events of the run, three
\* candidates are scheduled, and the second interview begins when the first
\* ends, after a slot that was busy before the run
C30_Witness ==
    /\ pc = "scheduler_returned"
    /\ calendar.reports_created
    /\ calendar.busy # {}
    /\ Len(Slots) = 3
    /\ Slots[2].start_time = Slots[1].end_time
    /\ Slots[3].start_time > Slots[2].end_time

=============================================================================
